---- MODULE Spec2Model ----
(***************************************************************************)
(* DatabaseManager (Nodejs/1. Singleton Pattern/databaseManager.js): the   *)
(* connection pool, connect/disconnect, query with retry and transaction,  *)
(* run by several asynchronous callers on one event loop.  One action is   *)
(* one uninterrupted run of JavaScript between two awaits on a timer.      *)
(***************************************************************************)
EXTENDS Integers, Sequences, FiniteSets, TLC

\* ------------------------------------------------------------- bounds
NumCallers == 2
MaxCapacity == 2
MaxRetryAttempts == 3
MaxCalls == 3
MaxBodyQueries == 1
MaxIds == 5
MaxTime == 2
MaxReleases == 2
MaxObjects == 3
MaxNews == 2

\* ----------------------------------------------------- program constants
InitialPoolSize == 3
DefaultRetryDelay == 1000

\* The callers of the general specification, and those of the scenario with one
\* caller more than that.
Procs == 1..NumCallers
Callers == 1..(NumCallers + 1)
Ids == 1..MaxIds
NoConn == 0

VARIABLES
    connectionState,  \* #connectionState
    connectionPool,   \* #connectionPool: the connection ids, in insertion order
    conn,             \* the connection objects, by id: inUse, transactionActive
    created,          \* number of connection objects #createConnection has made
    maxConnections,   \* #maxConnections
    retryAttempts,    \* #retryAttempts
    stats,            \* #stats
    pc,               \* where each caller's asynchronous call is suspended
    op,               \* the outermost call each caller is in
    qConn,            \* query(): const connection
    tConn,            \* transaction(): const connection
    attempt,          \* #executeQueryWithRetry: let attempt
    made,             \* number of #executeQuery calls of the current query()
    lastError,        \* #executeQueryWithRetry: let lastError
    initI,            \* #initializeConnectionPool: let i
    closing,          \* disconnect(): the [id, connection] being closed
    result,           \* how the caller's last call settled
    txError,          \* transaction(): the error its catch block caught
    hits,             \* the #stats increments made by the current query()
    callbackCalls,    \* invocations of the callback by the current transaction()
    bodyQueries,      \* query() calls made by the current transaction callback
    calls,            \* number of top-level calls started
    nConn,            \* transaction() called by a callback: const connection
    handle,           \* a connection a caller keeps after its acquisition
    releases,         \* number of #releaseConnection(handle) calls made
    now,              \* the clock: the value of new Date()
    lastUsedAt,       \* the connection objects' lastUsed, by id
    snapshot,         \* the object getStats() last returned, as its caller has it
    instance,         \* static #instance of each singleton class (0: null)
    objects,          \* number of objects of each class ever constructed
    got,              \* what each class's getInstance() last returned
    thrown,           \* each class's direct new expressions: made, and thrown
    queryArg,         \* the query argument of the last query() call
    retryDelay,       \* #retryDelay
    waits,            \* the #delay durations the current query() has awaited
    ranOn,            \* the connections the current query() ran #executeQuery on
    config,           \* ConfigurationManager #config: the value stored at each path
    cfgCall,          \* the last get() / set() call and what it returned
    logLevel,         \* Logger #logLevel
    logCall,          \* the level option of the last configure() call
    userStage,        \* createUser(): the query each caller's call is awaiting
    userData,         \* createUser(): the argument of each caller's call
    eventListeners,   \* #eventListeners: the listeners of each event, in order
    lastEmit,         \* the last #emit call: its event and whom it invoked
    rateLimit,        \* NotificationService config.rateLimit
    rateLimitCounter, \* #rateLimitCounter
    rateLimitResetTime, \* #rateLimitResetTime
    clock,            \* Date.now(), in milliseconds since the service was built
    sendTimes,        \* when each notification was handed to its sender
    lastSend          \* the last send call and how its rate check ended

poolVars == <<connectionPool, conn, created, lastUsedAt>>
configVars == <<maxConnections, retryAttempts, retryDelay>>
queryVars == <<qConn, attempt, made, lastError, hits, waits, ranOn>>
txVars == <<tConn, nConn, txError, callbackCalls, bodyQueries>>
connectVars == <<initI, closing>>
releaseVars == <<handle, releases, now>>
singletonVars == <<instance, objects, got, thrown>>
\* What no step of the manager's connect, disconnect, query and transaction
\* changes: the configuration, and the state of the operations specified apart.
serviceVars == <<config, cfgCall, logLevel, logCall>>
userVars == <<userStage, userData>>
eventVars == <<eventListeners, lastEmit>>
\* The same but for the listeners, which connect() and disconnect() invoke.
notifyVars == <<rateLimit, rateLimitCounter, rateLimitResetTime, clock,
                sendTimes, lastSend>>
quietVars == <<configVars, releaseVars, snapshot, singletonVars, queryArg,
               serviceVars, userVars, notifyVars>>
otherVars == <<quietVars, eventVars>>
vars == <<connectionState, connectionPool, conn, created, maxConnections,
          retryAttempts, stats, pc, op, qConn, tConn, attempt, made, lastError,
          initI, closing, result, txError, hits, callbackCalls, bodyQueries,
          calls, nConn, handle, releases, now, lastUsedAt, snapshot, instance,
          objects, got, thrown, queryArg, retryDelay, waits, ranOn, config,
          cfgCall, logLevel, logCall, userStage, userData, eventListeners,
          lastEmit, rateLimit, rateLimitCounter, rateLimitResetTime, clock,
          sendTimes, lastSend>>

\* ------------------------------------------------------------ helpers
Min(a, b) == IF a < b THEN a ELSE b

Remove(seq, id) == SelectSeq(seq, LAMBDA x : x # id)

NoHits == [total |-> 0, ok |-> 0, failed |-> 0]

\* FirstIdle without the test of inUse: the first pooled connection.
FirstPooled(pool, cs) == IF pool = <<>> THEN NoConn ELSE pool[1]

\* The first pooled connection, in Map iteration order, that is not in use
\* (NoConn when every pooled connection is in use).
FirstIdle(pool, cs) ==
    LET idle == {k \in 1..Len(pool) : ~cs[pool[k]].inUse}
    IN  IF idle = {} THEN NoConn
        ELSE pool[CHOOSE k \in idle : \A j \in idle : k <= j]

\* #createConnection: a fresh connection object, not in use.
NewConnection == [inUse |-> FALSE, transactionActive |-> FALSE]

\* Tracked without the test of the pool: connection is not null.
NotNull(pool, id) == id # NoConn

\* connection && this.#connectionPool.has(connection.id)
Tracked(pool, id) == id # NoConn /\ (\E k \in 1..Len(pool) : pool[k] = id)

\* #releaseConnection(connection): connection.inUse = false
ReleaseConnection(pool, cs, id) ==
    IF Tracked(pool, id) THEN [cs EXCEPT ![id].inUse = FALSE] ELSE cs

\* connection.lastUsed = new Date(), at time t
LastUsedNow(lu, id, t) == [lu EXCEPT ![id] = t]

\* #releaseConnection(connection): connection.lastUsed = new Date()
ReleaseLastUsed(pool, lu, id, t) ==
    IF Tracked(pool, id) THEN LastUsedNow(lu, id, t) ELSE lu

\* No caller keeps a handle; the clock stands at 0 and is not advanced by the
\* steps of connect, disconnect, query and transaction, so that every
\* timestamp they write is the 0 already there.
NothingReleased ==
    /\ handle = NoConn
    /\ releases = 0
    /\ now = 0
    /\ lastUsedAt = [i \in Ids |-> 0]

\* No query() call has been made: its argument is undefined.
NoArg == [type |-> "undefined", truthy |-> FALSE]

\* No getStats() result is held.
NoSnapshot == [taken |-> FALSE]

\* GetStats returning the #stats object itself, with the three fields added.
GetStatsShared(st, state, pool, max) ==
    [taken |-> TRUE, own |-> FALSE, mutated |-> FALSE,
     obj |-> [totalQueries |-> st.totalQueries,
              successfulQueries |-> st.successfulQueries,
              failedQueries |-> st.failedQueries,
              activeConnections |-> st.activeConnections,
              connectionErrors |-> st.connectionErrors,
              connectionState |-> state, poolSize |-> Len(pool),
              maxConnections |-> max]]

\* getStats(): a new object (own) with the fields of #stats spread into it,
\* and connectionState, poolSize, maxConnections.
GetStats(st, state, pool, max) ==
    [taken |-> TRUE, own |-> TRUE, mutated |-> FALSE,
     obj |-> [totalQueries |-> st.totalQueries,
              successfulQueries |-> st.successfulQueries,
              failedQueries |-> st.failedQueries,
              activeConnections |-> st.activeConnections,
              connectionErrors |-> st.connectionErrors,
              connectionState |-> state, poolSize |-> Len(pool),
              maxConnections |-> max]]

\* The three singleton classes.
Classes == {"ConfigurationManager", "Logger", "DatabaseManager"}
Null == 0
\* The object each module exports: the first one its class constructs.
Exported == 1

\* The modules have been loaded: const x = X.getInstance() has run in each.
ModulesLoaded ==
    /\ instance = [k \in Classes |-> Exported]
    /\ objects = [k \in Classes |-> 1]
    /\ got = [k \in Classes |-> Exported]
    /\ thrown = [k \in Classes |-> [news |-> 0, threw |-> 0]]

\* ------------------------------------------- values of the services
\* A JavaScript value: its kind, and the number when it is one.
Undefined == [type |-> "undefined", num |-> 0]
NullValue == [type |-> "null", num |-> 0]
ObjectValue == [type |-> "object", num |-> 0]
FunctionValue == [type |-> "function", num |-> 0]
StringValue == [type |-> "string", num |-> 0]
True == [type |-> "boolean", num |-> 1]
False == [type |-> "boolean", num |-> 0]
TypeError == [type |-> "TypeError", num |-> 0]
Number(n) == [type |-> "number", num |-> n]
\* No own property of that name.
Absent == [type |-> "absent", num |-> 0]

\* typeof v
TypeOf(v) == IF v.type = "null" THEN "object" ELSE v.type

\* Boolean(v), for the values above
Truthy(v) ==
    \/ v.type \in {"object", "function"}
    \/ v = True
    \/ v.type = "number" /\ v.num # 0

\* The dot keys the callers use, split at the dots.
Keys == {<<"server">>, <<"server", "port">>, <<"server", "host">>,
         <<"constructor">>}

DefaultPort == 3000

\* this.#config = { ..., server: { port: 3000, host: '0.0.0.0', ... }, ... }
DefaultConfig ==
    [p \in Keys |->
        CASE p = <<"server">> -> ObjectValue
          [] p = <<"server", "port">> -> Number(DefaultPort)
          [] p = <<"server", "host">> -> StringValue
          [] OTHER -> Absent]

NoConfigCall == [op |-> "none", key |-> <<>>, value |-> Undefined, ret |-> Undefined]

\* static #LOG_LEVELS = { ERROR: 0, WARN: 1, INFO: 2, DEBUG: 3, TRACE: 4 }
LevelNames == <<"ERROR", "WARN", "INFO", "DEBUG", "TRACE">>

\* Logger.#LOG_LEVELS[name]: the level's number; what every object
\* inherits for a name of Object.prototype; undefined for any other name.
LogLevels(name) ==
    IF \E i \in 1..Len(LevelNames) : LevelNames[i] = name
    THEN Number((CHOOSE i \in 1..Len(LevelNames) : LevelNames[i] = name) - 1)
    ELSE IF name = "toString" THEN FunctionValue ELSE Undefined

\* configure() called with no level option.
NoLevel == "(none)"

\* No createUser() call is in progress.
NoUserData == [name |-> "", email |-> "", role |-> ""]

\* The services as their modules construct them.
ServicesFresh ==
    /\ config = DefaultConfig
    /\ cfgCall = NoConfigCall
    /\ logLevel = LogLevels("INFO")
    /\ logCall = NoLevel
    /\ userStage = [c \in Callers |-> "none"]
    /\ userData = [c \in Callers |-> NoUserData]

\* ------------------------------------------------- on / off / #emit
\* The events connect() and disconnect() emit.
Events == {"connecting", "connected", "error", "disconnected"}

\* The listeners the callers register: one that only records the event, one
\* that throws, and one that removes itself with off() when invoked.
Listeners == {"recorder", "thrower", "remover"}

NoEmit == [event |-> "none", registered |-> <<>>, invoked |-> <<>>]

\* this.#eventListeners = new Map(): no listener is registered.
NoListeners ==
    /\ eventListeners = [e \in Events |-> <<>>]
    /\ lastEmit = NoEmit

\* listeners.splice(listeners.indexOf(listener), 1)
Splice(ls, l) ==
    IF \E i \in 1..Len(ls) : ls[i] = l
    THEN LET k == CHOOSE i \in 1..Len(ls) :
                      ls[i] = l /\ \A j \in 1..(i - 1) : ls[j] # l
         IN  SubSeq(ls, 1, k - 1) \o SubSeq(ls, k + 1, Len(ls))
    ELSE ls

\* What invoking listener l does to the array it is invoked from: the
\* remover calls off(event, itself); an error thrown is caught and logged.
Invoke(ls, l) == IF l = "remover" THEN Splice(ls, l) ELSE ls

\* listeners.forEach(listener => ...) from index k on: the loop runs over the
\* indices below the length the array had when it began, and visits index k
\* if the array, as it is by then, still has an element there.
RECURSIVE ForEach(_, _, _, _)
ForEach(ls, k, len, invoked) ==
    IF k > len THEN [ls |-> ls, invoked |-> invoked]
    ELSE IF k > Len(ls) THEN ForEach(ls, k + 1, len, invoked)
    ELSE ForEach(Invoke(ls, ls[k]), k + 1, len, Append(invoked, ls[k]))

\* this.#emit(event)
Emit(event) ==
    LET ls == eventListeners[event]
        r == ForEach(ls, 1, Len(ls), <<>>)
    IN  /\ eventListeners' = [eventListeners EXCEPT ![event] = r.ls]
        /\ lastEmit' = [event |-> event, registered |-> ls,
                        invoked |-> r.invoked]

\* connect() returning at once in the state 'error' too.
ReturnsAtOnceOrError(state) == state \in {"connected", "connecting", "error"}

\* connect(): already connected, or a connection attempt is in progress.
ReturnsAtOnce(state) == state \in {"connected", "connecting"}

\* ------------------------------------------- NotificationService
\* rateLimit: configManager.get('app.notificationRateLimit', 100)
DefaultRateLimit == 100

\* The length of the rate limit's window: 60000 ms.
Window == 60000

NoSend == [kind |-> "none", result |-> "none"]

\* new NotificationService() with the configured limit: the counter is 0
\* and the first window ends a minute after the construction.
NotificationsWith(limit) ==
    /\ rateLimit = limit
    /\ rateLimitCounter = 0
    /\ clock = 0
    /\ rateLimitResetTime = clock + Window
    /\ sendTimes = <<>>
    /\ lastSend = NoSend

\* No call is in progress.
CallersIdle ==
    /\ pc = [c \in Callers |-> "idle"]
    /\ op = [c \in Callers |-> "none"]
    /\ qConn = [c \in Callers |-> NoConn]
    /\ tConn = [c \in Callers |-> NoConn]
    /\ nConn = [c \in Callers |-> NoConn]
    /\ attempt = [c \in Callers |-> 0]
    /\ made = [c \in Callers |-> 0]
    /\ waits = [c \in Callers |-> <<>>]
    /\ ranOn = [c \in Callers |-> {}]
    /\ lastError = [c \in Callers |-> "undefined"]
    /\ initI = [c \in Callers |-> 0]
    /\ closing = [c \in Callers |-> NoConn]
    /\ result = [c \in Callers |-> "none"]
    /\ txError = [c \in Callers |-> "none"]
    /\ hits = [c \in Callers |-> NoHits]
    /\ callbackCalls = [c \in Callers |-> 0]
    /\ bodyQueries = [c \in Callers |-> 0]
    /\ calls = 0

InitManager ==
    /\ connectionState = "disconnected"
    /\ connectionPool = <<>>
    /\ conn = [i \in Ids |-> NewConnection]
    /\ created = 0
    /\ maxConnections \in 1..MaxCapacity
    /\ retryAttempts \in 0..MaxRetryAttempts
    /\ stats = [totalQueries |-> 0, successfulQueries |-> 0, failedQueries |-> 0,
                activeConnections |-> 0, connectionErrors |-> 0]
    /\ pc = [c \in Callers |-> "idle"]
    /\ op = [c \in Callers |-> "none"]
    /\ qConn = [c \in Callers |-> NoConn]
    /\ tConn = [c \in Callers |-> NoConn]
    /\ attempt = [c \in Callers |-> 0]
    /\ made = [c \in Callers |-> 0]
    /\ waits = [c \in Callers |-> <<>>]
    /\ ranOn = [c \in Callers |-> {}]
    /\ lastError = [c \in Callers |-> "undefined"]
    /\ initI = [c \in Callers |-> 0]
    /\ closing = [c \in Callers |-> NoConn]
    /\ result = [c \in Callers |-> "none"]
    /\ txError = [c \in Callers |-> "none"]
    /\ hits = [c \in Callers |-> NoHits]
    /\ callbackCalls = [c \in Callers |-> 0]
    /\ bodyQueries = [c \in Callers |-> 0]
    /\ calls = 0
    /\ nConn = [c \in Callers |-> NoConn]
    /\ NothingReleased
    /\ snapshot = NoSnapshot
    /\ queryArg = NoArg
    /\ retryDelay = DefaultRetryDelay
    /\ ServicesFresh
    /\ NoListeners
    /\ ModulesLoaded

\* The modules as loaded, the notification service with its default limit.
Init == InitManager /\ NotificationsWith(DefaultRateLimit)

\* ------------------------------------------------- #getConnection
\* const connection = ... of the caller's query() (slot "q"), of its
\* transaction() (slot "t"), or of the transaction() its callback calls
\* (slot "n").
Hold(c, slot, id) ==
    /\ qConn' = IF slot = "q" THEN [qConn EXCEPT ![c] = id] ELSE qConn
    /\ tConn' = IF slot = "t" THEN [tConn EXCEPT ![c] = id] ELSE tConn
    /\ nConn' = IF slot = "n" THEN [nConn EXCEPT ![c] = id] ELSE nConn

Got(slot) ==
    IF slot = "q" THEN "q_exec" ELSE IF slot = "t" THEN "t_begin" ELSE "n_begin"
Creating(slot) ==
    IF slot = "q" THEN "q_creating"
    ELSE IF slot = "t" THEN "t_creating" ELSE "n_creating"
Waiting(slot) ==
    IF slot = "q" THEN "q_waiting"
    ELSE IF slot = "t" THEN "t_waiting" ELSE "n_waiting"
SlotOf(p) ==
    IF p \in {"q_creating", "q_waiting"} THEN "q"
    ELSE IF p \in {"t_creating", "t_waiting"} THEN "t" ELSE "n"

\* The pool may grow: pool.size < maxConnections.
PoolNotFull(pool, max) == Len(pool) < max

\* The part of #getConnection that runs before its first await: take the first
\* idle connection, or start creating one, or start polling.
GetConnectionStart(c, slot) ==
    LET id == FirstIdle(connectionPool, conn)
    IN  /\ UNCHANGED <<connectionPool, created>>
        /\ IF id # NoConn
           THEN /\ conn' = [conn EXCEPT ![id].inUse = TRUE]
                /\ lastUsedAt' = LastUsedNow(lastUsedAt, id, now)
                /\ Hold(c, slot, id)
                /\ pc' = [pc EXCEPT ![c] = Got(slot)]
           ELSE /\ UNCHANGED <<conn, lastUsedAt, qConn, tConn, nConn>>
                /\ pc' = [pc EXCEPT ![c] =
                            IF PoolNotFull(connectionPool, maxConnections)
                            THEN Creating(slot) ELSE Waiting(slot)]

\* await this.#createConnection() has resolved inside #getConnection.
CreateConnectionDone(c) ==
    /\ pc[c] \in {"q_creating", "t_creating", "n_creating"}
    /\ created < MaxIds
    /\ LET id == created + 1
           slot == SlotOf(pc[c])
       IN  /\ created' = id
           /\ conn' = [conn EXCEPT ![id] = [NewConnection EXCEPT !.inUse = TRUE]]
           /\ lastUsedAt' = LastUsedNow(lastUsedAt, id, now)
           /\ connectionPool' = Append(connectionPool, id)
           /\ stats' = [stats EXCEPT !.activeConnections = Len(connectionPool')]
           /\ Hold(c, slot, id)
           /\ pc' = [pc EXCEPT ![c] = Got(slot)]
    /\ UNCHANGED <<connectionState, otherVars, op, attempt, made, waits, ranOn,
                   lastError, hits, txError, callbackCalls, bodyQueries,
                   connectVars, result, calls>>

\* checkConnection: a poll that finds an idle connection (a poll that finds
\* none re-arms its timer and changes nothing).
CheckConnection(c) ==
    /\ pc[c] \in {"q_waiting", "t_waiting", "n_waiting"}
    /\ LET id == FirstIdle(connectionPool, conn)
           slot == SlotOf(pc[c])
       IN  /\ id # NoConn
           /\ conn' = [conn EXCEPT ![id].inUse = TRUE]
           /\ lastUsedAt' = LastUsedNow(lastUsedAt, id, now)
           /\ Hold(c, slot, id)
           /\ pc' = [pc EXCEPT ![c] = Got(slot)]
    /\ UNCHANGED <<connectionState, connectionPool, created, otherVars, stats, op,
                   attempt, made, waits, ranOn, lastError, hits, txError, callbackCalls,
                   bodyQueries, connectVars, result, calls>>

\* ------------------------------------------------- connect()
\* connect() up to its first await, called by connect itself or by query().
\* retNow is where the caller continues when connect() returns at once.
ConnectStart(c, retNow) ==
    IF ReturnsAtOnce(connectionState)
    THEN /\ pc' = [pc EXCEPT ![c] = retNow]
         /\ UNCHANGED <<connectionState, eventVars>>
    ELSE /\ connectionState' = "connecting"
         /\ Emit("connecting")
         /\ pc' = [pc EXCEPT ![c] = "connecting"]

Connect(c) ==
    /\ pc[c] = "idle"
    /\ calls < MaxCalls
    /\ calls' = calls + 1
    /\ op' = [op EXCEPT ![c] = "connect"]
    /\ result' = [result EXCEPT ![c] = "ok"]
    /\ ConnectStart(c, "done")
    /\ UNCHANGED <<poolVars, quietVars, stats, queryVars, txVars, connectVars>>

\* How a call that awaited connect() goes on when connect() throws / returns.
AfterConnectFailed(c) == IF op[c] = "connect" THEN "done" ELSE "q_done"
AfterConnectOk(c) == IF op[c] = "connect" THEN "done" ELSE "q_connected"

\* Math.min(3, this.#maxConnections)
InitialConnections(max) == Min(InitialPoolSize, max)

\* #simulateConnection's timer fires: resolve or reject.
SimulateConnectionDone(c) ==
    /\ pc[c] = "connecting"
    /\ \/ /\ pc' = [pc EXCEPT ![c] = "init_pool"]
          /\ initI' = [initI EXCEPT ![c] = 0]
          /\ UNCHANGED <<connectionState, stats, result, eventVars>>
       \/ /\ connectionState' = "error"
          /\ stats' = [stats EXCEPT !.connectionErrors = @ + 1]
          /\ Emit("error")
          /\ result' = [result EXCEPT ![c] = "ConnectionTimeout"]
          /\ pc' = [pc EXCEPT ![c] = AfterConnectFailed(c)]
          /\ UNCHANGED initI
    /\ UNCHANGED <<poolVars, quietVars, op, queryVars, txVars, closing, calls>>

\* #initializeConnectionPool: one await this.#createConnection() has resolved;
\* after the last one connect() sets the state and returns.
InitializeConnectionPool(c) ==
    /\ pc[c] = "init_pool"
    /\ created < MaxIds
    /\ LET id == created + 1
           last == ~(initI[c] + 1 < InitialConnections(maxConnections))
       IN  /\ created' = id
           /\ conn' = [conn EXCEPT ![id] = NewConnection]
           /\ lastUsedAt' = LastUsedNow(lastUsedAt, id, now)
           /\ connectionPool' = Append(connectionPool, id)
           /\ initI' = [initI EXCEPT ![c] = @ + 1]
           /\ IF last
              THEN /\ stats' = [stats EXCEPT
                                  !.activeConnections = Len(connectionPool')]
                   /\ connectionState' = "connected"
                   /\ Emit("connected")
                   /\ pc' = [pc EXCEPT ![c] = AfterConnectOk(c)]
              ELSE UNCHANGED <<stats, connectionState, pc, eventVars>>
    /\ UNCHANGED <<quietVars, op, queryVars, txVars, closing, result, calls>>

\* ------------------------------------------------- disconnect()
\* The for-of loop over the Map: the iterator is live, and every entry it has
\* visited was deleted, so its next entry is the first one still in the Map.
DisconnectNext(c, pool) ==
    IF pool = <<>>
    THEN /\ stats' = [stats EXCEPT !.activeConnections = 0]
         /\ closing' = [closing EXCEPT ![c] = NoConn]
         /\ pc' = [pc EXCEPT ![c] = "done"]
    ELSE /\ closing' = [closing EXCEPT ![c] = Head(pool)]
         /\ pc' = [pc EXCEPT ![c] = "closing"]
         /\ UNCHANGED stats

Disconnect(c) ==
    /\ pc[c] = "idle"
    /\ calls < MaxCalls
    /\ calls' = calls + 1
    /\ op' = [op EXCEPT ![c] = "disconnect"]
    /\ result' = [result EXCEPT ![c] = "ok"]
    /\ IF connectionState = "disconnected"
       THEN /\ pc' = [pc EXCEPT ![c] = "done"]
            /\ UNCHANGED <<connectionState, stats, closing, eventVars>>
       ELSE /\ connectionState' = "disconnected"
            /\ Emit("disconnected")
            /\ DisconnectNext(c, connectionPool)
    /\ UNCHANGED <<poolVars, quietVars, queryVars, txVars, initI>>

\* await this.#closeConnection(connection) has resolved: delete the entry.
CloseConnectionDone(c) ==
    /\ pc[c] = "closing"
    /\ connectionPool' = Remove(connectionPool, closing[c])
    /\ DisconnectNext(c, connectionPool')
    /\ UNCHANGED <<connectionState, conn, created, lastUsedAt, otherVars, op,
                   queryVars, txVars, initI, result, calls>>

\* ------------------------------------------------- query()
\* The #stats increments one step makes, added to the caller's tally.
Tally(h, old, new) ==
    [total |-> h.total + (new.totalQueries - old.totalQueries),
     ok |-> h.ok + (new.successfulQueries - old.successfulQueries),
     failed |-> h.failed + (new.failedQueries - old.failedQueries)]

\* query() with a valid query string, up to its first await.
QueryStart(c) ==
    /\ stats' = [stats EXCEPT !.totalQueries = @ + 1]
    /\ hits' = [hits EXCEPT ![c] = Tally(NoHits, stats, stats')]
    /\ attempt' = [attempt EXCEPT ![c] = 1]
    /\ made' = [made EXCEPT ![c] = 0]
    /\ waits' = [waits EXCEPT ![c] = <<>>]
    /\ ranOn' = [ranOn EXCEPT ![c] = {}]
    /\ lastError' = [lastError EXCEPT ![c] = "undefined"]
    /\ result' = [result EXCEPT ![c] = "none"]
    /\ IF connectionState # "connected"
       THEN /\ ConnectStart(c, "q_connected")
            /\ UNCHANGED <<poolVars, qConn, tConn, nConn>>
       ELSE /\ GetConnectionStart(c, "q")
            /\ UNCHANGED <<connectionState, eventVars>>
    /\ UNCHANGED <<txError, callbackCalls, connectVars>>

Query(c) ==
    /\ pc[c] = "idle"
    /\ calls < MaxCalls
    /\ calls' = calls + 1
    /\ op' = [op EXCEPT ![c] = "query"]
    /\ QueryStart(c)
    /\ UNCHANGED <<quietVars, bodyQueries>>

\* query() after await this.connect() has returned.
QueryAfterConnect(c) ==
    /\ pc[c] = "q_connected"
    /\ GetConnectionStart(c, "q")
    /\ UNCHANGED <<connectionState, otherVars, stats, op, attempt, made, waits,
                   ranOn, lastError, hits, txError, callbackCalls, bodyQueries,
                   connectVars, result, calls>>

\* The for loop's condition: attempt <= this.#retryAttempts.
LoopContinues(a, r) == a <= r

\* After a failed attempt: attempt < this.#retryAttempts, wait and try again.
RetryAfterFailure(a, r) == a < r

\* BackoffDelay without the factor: the same delay after every attempt.
BackoffDelayFlat(d, a) == d

\* this.#retryDelay * attempt
BackoffDelay(d, a) == d * a

\* CountSuccess counting the successful attempt as a query of its own.
CountSuccessAndAttempt(st) ==
    [st EXCEPT !.successfulQueries = @ + 1, !.totalQueries = @ + 1]

\* this.#stats.successfulQueries++ / this.#stats.failedQueries++
CountSuccess(st) == [st EXCEPT !.successfulQueries = @ + 1]
CountFailure(st) == [st EXCEPT !.failedQueries = @ + 1]

\* console.error('Query failed:', error.message) in query()'s catch block:
\* reading .message of undefined throws a TypeError in place of the error.
Rethrown(err) == IF err = "undefined" THEN "TypeError" ELSE err

\* query() settles: its catch block (when it failed), then finally releases.
QuerySettles(c, newStats, res) ==
    /\ stats' = newStats
    /\ hits' = [hits EXCEPT ![c] = Tally(@, stats, stats')]
    /\ conn' = ReleaseConnection(connectionPool, conn, qConn[c])
    /\ lastUsedAt' = ReleaseLastUsed(connectionPool, lastUsedAt, qConn[c], now)
    /\ qConn' = [qConn EXCEPT ![c] = NoConn]
    /\ result' = [result EXCEPT ![c] = res]
    /\ pc' = [pc EXCEPT ![c] = "q_done"]

\* #executeQueryWithRetry: the loop condition, then #executeQuery's timer
\* fires and resolves or rejects.
ExecuteQueryDone(c) ==
    /\ pc[c] = "q_exec"
    /\ IF ~LoopContinues(attempt[c], retryAttempts)
       THEN /\ QuerySettles(c, CountFailure(stats), Rethrown(lastError[c]))
            /\ UNCHANGED <<made, lastError, waits, ranOn>>
       ELSE /\ made' = [made EXCEPT ![c] = @ + 1]
            /\ ranOn' = [ranOn EXCEPT ![c] = @ \cup {qConn[c]}]
            /\ \/ /\ QuerySettles(c, CountSuccess(stats), "ok")
                  /\ UNCHANGED <<lastError, waits>>
               \/ /\ lastError' = [lastError EXCEPT ![c] = "QueryExecutionFailed"]
                  /\ waits' = IF RetryAfterFailure(attempt[c], retryAttempts)
                              THEN [waits EXCEPT ![c] = Append(@,
                                      BackoffDelay(retryDelay, attempt[c]))]
                              ELSE waits
                  /\ IF RetryAfterFailure(attempt[c], retryAttempts)
                     THEN /\ pc' = [pc EXCEPT ![c] = "q_delay"]
                          /\ UNCHANGED <<stats, hits, conn, lastUsedAt, qConn,
                                         result>>
                     ELSE QuerySettles(c, CountFailure(stats),
                                       Rethrown(lastError'[c]))
    /\ UNCHANGED <<connectionState, connectionPool, created, otherVars, op,
                   attempt, txVars, connectVars, calls>>

\* await this.#delay(this.#retryDelay * attempt) has resolved: attempt++.
DelayDone(c) ==
    /\ pc[c] = "q_delay"
    /\ attempt' = [attempt EXCEPT ![c] = @ + 1]
    /\ pc' = [pc EXCEPT ![c] = "q_exec"]
    /\ UNCHANGED <<connectionState, poolVars, otherVars, stats, op, qConn, made,
                   waits, ranOn, lastError, hits, txVars, connectVars, result,
                   calls>>

\* The caller of query() resumes with its result or its error: a top-level
\* caller is done; a transaction callback goes on, or throws the error on.
QueryReturn(c) ==
    /\ pc[c] = "q_done"
    /\ IF op[c] = "transaction"
       THEN /\ pc' = [pc EXCEPT ![c] =
                        IF result[c] = "ok" THEN "t_body" ELSE "t_rollback"]
            /\ txError' = [txError EXCEPT ![c] =
                             IF result[c] = "ok" THEN @ ELSE result[c]]
            /\ UNCHANGED op
       ELSE /\ pc' = [pc EXCEPT ![c] = "idle"]
            /\ op' = [op EXCEPT ![c] = "none"]
            /\ UNCHANGED txError
    /\ attempt' = [attempt EXCEPT ![c] = 0]
    /\ made' = [made EXCEPT ![c] = 0]
    /\ waits' = [waits EXCEPT ![c] = <<>>]
    /\ ranOn' = [ranOn EXCEPT ![c] = {}]
    /\ lastError' = [lastError EXCEPT ![c] = "undefined"]
    /\ hits' = [hits EXCEPT ![c] = NoHits]
    /\ result' = [result EXCEPT ![c] = "none"]
    /\ UNCHANGED <<connectionState, poolVars, otherVars, stats, qConn, tConn,
                   nConn, callbackCalls, bodyQueries, connectVars, calls>>

\* ------------------------------------------------- transaction()
Transaction(c) ==
    /\ pc[c] = "idle"
    /\ calls < MaxCalls
    /\ calls' = calls + 1
    /\ op' = [op EXCEPT ![c] = "transaction"]
    /\ result' = [result EXCEPT ![c] = "none"]
    /\ GetConnectionStart(c, "t")
    /\ UNCHANGED <<connectionState, otherVars, stats, attempt, made, waits,
                   ranOn, lastError, hits, txError, callbackCalls, bodyQueries,
                   connectVars>>

\* #beginTransaction's timer fires; then transaction() invokes the callback.
BeginTransactionDone(c) ==
    /\ pc[c] = "t_begin"
    /\ conn' = [conn EXCEPT ![tConn[c]].transactionActive = TRUE]
    /\ callbackCalls' = [callbackCalls EXCEPT ![c] = @ + 1]
    /\ pc' = [pc EXCEPT ![c] = "t_body"]
    /\ UNCHANGED <<connectionState, connectionPool, created, lastUsedAt,
                   otherVars, stats,
                   op, queryVars, tConn, nConn, txError, bodyQueries,
                   connectVars, result, calls>>

\* The callback awaits databaseManager.query(...) (OrderService.createOrder).
CallbackQuery(c) ==
    /\ pc[c] = "t_body"
    /\ bodyQueries[c] < MaxBodyQueries
    /\ bodyQueries' = [bodyQueries EXCEPT ![c] = @ + 1]
    /\ QueryStart(c)
    /\ UNCHANGED <<quietVars, op, calls>>

\* The callback returns its value.
CallbackReturns(c) ==
    /\ pc[c] = "t_body"
    /\ pc' = [pc EXCEPT ![c] = "t_commit"]
    /\ UNCHANGED <<connectionState, poolVars, otherVars, stats, op, queryVars,
                   txVars, connectVars, result, calls>>

\* The callback throws an error of its own (e.g. 'Insufficient stock').
CallbackThrows(c) ==
    /\ pc[c] = "t_body"
    /\ txError' = [txError EXCEPT ![c] = "CallbackError"]
    /\ pc' = [pc EXCEPT ![c] = "t_rollback"]
    /\ UNCHANGED <<connectionState, poolVars, otherVars, stats, op, queryVars,
                   tConn, nConn, callbackCalls, bodyQueries, connectVars,
                   result, calls>>

\* EndTransaction leaving the flag as it is.
EndTransactionFlagKept(cs, id) == cs

\* The connection object once a transaction on it has ended (commit, rollback).
EndTransaction(cs, id) == [cs EXCEPT ![id].transactionActive = FALSE]

\* transaction() settles: finally releases the connection.
TransactionSettles(c, res) ==
    /\ conn' = ReleaseConnection(connectionPool,
                                 EndTransaction(conn, tConn[c]), tConn[c])
    /\ lastUsedAt' = ReleaseLastUsed(connectionPool, lastUsedAt, tConn[c], now)
    /\ tConn' = [tConn EXCEPT ![c] = NoConn]
    /\ result' = [result EXCEPT ![c] = res]
    /\ pc' = [pc EXCEPT ![c] = "done"]
    /\ UNCHANGED <<connectionState, connectionPool, created, otherVars, stats,
                   op, queryVars, nConn, txError, callbackCalls, bodyQueries,
                   connectVars, calls>>

\* #commitTransaction's timer fires; transaction() returns the result.
CommitTransactionDone(c) ==
    /\ pc[c] = "t_commit"
    /\ TransactionSettles(c, "ok")

\* Reraised throwing an error of its own in place of the one caught.
ReraisedWrapped(err) == "TransactionFailed"

\* The error transaction() rethrows from its catch block: throw error.
Reraised(err) == err

\* #rollbackTransaction's timer fires; transaction() rethrows the error.
RollbackTransactionDone(c) ==
    /\ pc[c] = "t_rollback"
    /\ TransactionSettles(c, Reraised(txError[c]))

\* The caller of connect(), disconnect() or transaction() resumes.
Return(c) ==
    /\ pc[c] = "done"
    /\ pc' = [pc EXCEPT ![c] = "idle"]
    /\ op' = [op EXCEPT ![c] = "none"]
    /\ result' = [result EXCEPT ![c] = "none"]
    /\ txError' = [txError EXCEPT ![c] = "none"]
    /\ callbackCalls' = [callbackCalls EXCEPT ![c] = 0]
    /\ bodyQueries' = [bodyQueries EXCEPT ![c] = 0]
    /\ UNCHANGED <<connectionState, poolVars, otherVars, stats, queryVars,
                   tConn, nConn, connectVars, calls>>

\* ------------------------------------------------- specification
Next ==
    \E c \in Procs :
        \/ Connect(c)
        \/ SimulateConnectionDone(c)
        \/ InitializeConnectionPool(c)
        \/ Disconnect(c)
        \/ CloseConnectionDone(c)
        \/ Query(c)
        \/ QueryAfterConnect(c)
        \/ CreateConnectionDone(c)
        \/ CheckConnection(c)
        \/ ExecuteQueryDone(c)
        \/ DelayDone(c)
        \/ QueryReturn(c)
        \/ Transaction(c)
        \/ BeginTransactionDone(c)
        \/ CallbackQuery(c)
        \/ CallbackReturns(c)
        \/ CallbackThrows(c)
        \/ CommitTransactionDone(c)
        \/ RollbackTransactionDone(c)
        \/ Return(c)

Spec == Init /\ [][Next]_vars

\* ------------------------------------------------- acquisitions outstanding
\* The acquisitions that have returned a connection and not yet released it:
\* <<caller, slot>> pairs.
Borrowers ==
    {<<c, "q">> : c \in {x \in Callers : qConn[x] # NoConn}}
        \cup {<<c, "t">> : c \in {x \in Callers : tConn[x] # NoConn}}
        \cup {<<c, "n">> : c \in {x \in Callers : nConn[x] # NoConn}}

Borrowed(b) ==
    IF b[2] = "q" THEN qConn[b[1]]
    ELSE IF b[2] = "t" THEN tConn[b[1]] ELSE nConn[b[1]]

Holders == {b[1] : b \in Borrowers}

Blocked(c) == pc[c] \in {"q_waiting", "t_waiting", "n_waiting"}

PooledInUse == {k \in 1..Len(connectionPool) : conn[connectionPool[k]].inUse}

\* ------------------------------------------------- claims
\* C1: in every reachable state the pool holds at most maxConnections
\* connections, and at most as many connections are marked inUse as it holds.
C1_PoolWithinCapacity ==
    /\ Len(connectionPool) <= maxConnections
    /\ Cardinality(PooledInUse) <= Len(connectionPool)

\* C2: no state is reachable in which every pooled connection is in use and
\* every caller that holds a connection is blocked waiting to acquire another.
C2_NoDeadlock ==
    ~ /\ connectionPool # <<>>
      /\ \A k \in 1..Len(connectionPool) : conn[connectionPool[k]].inUse
      /\ Holders # {}
      /\ \A c \in Holders : Blocked(c)

\* C3: a connection is borrowed by at most one acquisition at a time: two
\* outstanding acquisitions never hold the same connection, and a borrowed
\* connection is marked inUse.
C3_ExclusiveBorrow ==
    /\ \A b1 \in Borrowers : \A b2 \in Borrowers :
          b1 # b2 => Borrowed(b1) # Borrowed(b2)
    /\ \A b \in Borrowers : conn[Borrowed(b)].inUse

\* C3 happens: one caller holds a connection while another caller, finding
\* none idle in a full pool, waits for one.
C3_Witness ==
    \E c1 \in Callers : \E c2 \in Callers :
        /\ c1 # c2
        /\ c1 \in Holders
        /\ Blocked(c2)

\* C4: with capacity N, once N acquisitions are outstanding a further
\* acquisition returns no connection before a release: never more than
\* maxConnections acquisitions are outstanding.
C4_AtMostCapacityBorrowed == Cardinality(Borrowers) <= maxConnections

\* C5: whenever a query() call that acquired a connection returns or throws,
\* that connection's inUse flag is false right after.
C5_QueryReleases ==
    [][\A c \in Callers :
          (pc[c] # "q_done" /\ pc'[c] = "q_done" /\ qConn[c] # NoConn)
              => ~conn'[qConn[c]].inUse]_vars

\* ------------------------------------------------- the three-caller scenario
\* A manager configured with maxConnections 2, fresh or after connect() has
\* resolved, on which the callers call query(), as many times as there are
\* callers.
InitScenario ==
    /\ maxConnections = 2
    /\ retryAttempts \in 1..MaxRetryAttempts
    /\ \/ /\ connectionState = "disconnected"
          /\ connectionPool = <<>>
          /\ created = 0
       \/ /\ connectionState = "connected"
          /\ connectionPool = <<1, 2>>
          /\ created = 2
    /\ conn = [i \in Ids |-> NewConnection]
    /\ stats = [totalQueries |-> 0, successfulQueries |-> 0, failedQueries |-> 0,
                activeConnections |-> Len(connectionPool), connectionErrors |-> 0]
    /\ pc = [c \in Callers |-> "idle"]
    /\ op = [c \in Callers |-> "none"]
    /\ qConn = [c \in Callers |-> NoConn]
    /\ tConn = [c \in Callers |-> NoConn]
    /\ attempt = [c \in Callers |-> 0]
    /\ made = [c \in Callers |-> 0]
    /\ waits = [c \in Callers |-> <<>>]
    /\ ranOn = [c \in Callers |-> {}]
    /\ lastError = [c \in Callers |-> "undefined"]
    /\ initI = [c \in Callers |-> 0]
    /\ closing = [c \in Callers |-> NoConn]
    /\ result = [c \in Callers |-> "none"]
    /\ txError = [c \in Callers |-> "none"]
    /\ hits = [c \in Callers |-> NoHits]
    /\ callbackCalls = [c \in Callers |-> 0]
    /\ bodyQueries = [c \in Callers |-> 0]
    /\ calls = 0
    /\ nConn = [c \in Callers |-> NoConn]
    /\ NothingReleased
    /\ snapshot = NoSnapshot
    /\ queryArg = NoArg
    /\ retryDelay = DefaultRetryDelay
    /\ ServicesFresh
    /\ NoListeners
    /\ NotificationsWith(DefaultRateLimit)
    /\ ModulesLoaded

\* One of the scenario's query() calls, one per caller in all.
ScenarioQuery(c) ==
    /\ pc[c] = "idle"
    /\ calls < Cardinality(Callers)
    /\ calls' = calls + 1
    /\ op' = [op EXCEPT ![c] = "query"]
    /\ QueryStart(c)
    /\ UNCHANGED <<quietVars, bodyQueries>>

NextScenario ==
    \E c \in Callers :
        \/ ScenarioQuery(c)
        \/ SimulateConnectionDone(c)
        \/ InitializeConnectionPool(c)
        \/ QueryAfterConnect(c)
        \/ CreateConnectionDone(c)
        \/ CheckConnection(c)
        \/ ExecuteQueryDone(c)
        \/ DelayDone(c)
        \/ QueryReturn(c)

SpecScenario == InitScenario /\ [][NextScenario]_vars

\* C6: with capacity 2 and three callers running query() concurrently, never
\* more than 2 connections are created.
C6_NeverThreeCreated == created <= 2

C8_FailsAfterAllAttempts ==
    \A c \in Callers :
        (pc[c] = "q_done" /\ result[c] \notin {"ok", "ConnectionTimeout"}) =>
            /\ made[c] = retryAttempts
            /\ made[c] >= 1
            /\ result[c] = lastError[c]
            /\ hits[c].failed = 1

\* C9: when transaction() throws after its callback threw, the connection it
\* used has transactionActive false, inUse false, and is still in the pool.
C9_RollbackLeavesIdle ==
    [][\A c \in Callers :
          (pc[c] = "t_rollback" /\ pc'[c] = "done") =>
              /\ ~conn'[tConn[c]].transactionActive
              /\ ~conn'[tConn[c]].inUse
              /\ \E k \in 1..Len(connectionPool') :
                    connectionPool'[k] = tConn[c]]_vars

\* C10: transaction() invokes its callback exactly once per call, and when the
\* callback fails it rethrows the very error the callback threw.
C10_CallbackOnceNoRetry ==
    \A c \in Callers :
        /\ callbackCalls[c] <= 1
        /\ (op[c] = "transaction" /\ pc[c] \in {"t_rollback", "t_commit", "done"})
              => callbackCalls[c] = 1
        /\ (op[c] = "transaction" /\ pc[c] = "done" /\ result[c] # "ok")
              => /\ txError[c] # "none"
                 /\ result[c] = txError[c]

\* C10 happens: with retryAttempts above 1 a transaction() has thrown after
\* its callback failed.
C10_Witness ==
    \E c \in Callers :
        /\ retryAttempts > 1
        /\ op[c] = "transaction"
        /\ pc[c] = "done"
        /\ result[c] = "CallbackError"

\* ------------------------------------------------- a transaction in a transaction
\* The callback of a transaction() awaits databaseManager.transaction(...):
\* transaction() up to its first await, in #getConnection.
CallbackTransaction(c) ==
    /\ pc[c] = "t_body"
    /\ bodyQueries[c] < MaxBodyQueries
    /\ bodyQueries' = [bodyQueries EXCEPT ![c] = @ + 1]
    /\ GetConnectionStart(c, "n")
    /\ UNCHANGED <<connectionState, otherVars, stats, op, attempt, made, waits, ranOn,
                   lastError, hits, txError, callbackCalls, connectVars, result,
                   calls>>

\* #beginTransaction's timer fires for the inner transaction(), which then
\* invokes its callback.
NestedBeginTransactionDone(c) ==
    /\ pc[c] = "n_begin"
    /\ conn' = [conn EXCEPT ![nConn[c]].transactionActive = TRUE]
    /\ pc' = [pc EXCEPT ![c] = "n_body"]
    /\ UNCHANGED <<connectionState, connectionPool, created, lastUsedAt,
                   otherVars, stats,
                   op, queryVars, txVars, connectVars, result, calls>>

\* The inner callback returns, or throws an error of its own.
NestedCallbackReturns(c) ==
    /\ pc[c] = "n_body"
    /\ pc' = [pc EXCEPT ![c] = "n_commit"]
    /\ UNCHANGED <<connectionState, poolVars, otherVars, stats, op, queryVars,
                   txVars, connectVars, result, calls>>

NestedCallbackThrows(c) ==
    /\ pc[c] = "n_body"
    /\ txError' = [txError EXCEPT ![c] = "CallbackError"]
    /\ pc' = [pc EXCEPT ![c] = "n_rollback"]
    /\ UNCHANGED <<connectionState, poolVars, otherVars, stats, op, queryVars,
                   tConn, nConn, callbackCalls, bodyQueries, connectVars,
                   result, calls>>

\* The inner transaction() settles (commit or rollback timer fired, finally
\* releases): the outer callback goes on, or, not catching the error, throws it.
NestedTransactionSettles(c, next) ==
    /\ conn' = ReleaseConnection(connectionPool,
                                 EndTransaction(conn, nConn[c]), nConn[c])
    /\ lastUsedAt' = ReleaseLastUsed(connectionPool, lastUsedAt, nConn[c], now)
    /\ nConn' = [nConn EXCEPT ![c] = NoConn]
    /\ pc' = [pc EXCEPT ![c] = next]
    /\ UNCHANGED <<connectionState, connectionPool, created, otherVars, stats,
                   op, queryVars, tConn, txError, callbackCalls, bodyQueries,
                   connectVars, result, calls>>

NestedCommitTransactionDone(c) ==
    /\ pc[c] = "n_commit"
    /\ NestedTransactionSettles(c, "t_body")

NestedRollbackTransactionDone(c) ==
    /\ pc[c] = "n_rollback"
    /\ NestedTransactionSettles(c, "t_rollback")

\* A manager, fresh or after connect() has resolved, on which the callers call
\* transaction() with callbacks that may call transaction() themselves.
InitNested ==
    /\ maxConnections \in 1..MaxCapacity
    /\ retryAttempts = MaxRetryAttempts
    /\ \/ /\ connectionState = "disconnected"
          /\ created = 0
       \/ /\ connectionState = "connected"
          /\ created = InitialConnections(maxConnections)
    /\ connectionPool = [k \in 1..created |-> k]
    /\ conn = [i \in Ids |-> NewConnection]
    /\ stats = [totalQueries |-> 0, successfulQueries |-> 0, failedQueries |-> 0,
                activeConnections |-> Len(connectionPool), connectionErrors |-> 0]
    /\ CallersIdle
    /\ NothingReleased
    /\ snapshot = NoSnapshot
    /\ queryArg = NoArg
    /\ retryDelay = DefaultRetryDelay
    /\ ServicesFresh
    /\ NoListeners
    /\ NotificationsWith(DefaultRateLimit)
    /\ ModulesLoaded

NextNested ==
    \E c \in Procs :
        \/ Transaction(c)
        \/ CreateConnectionDone(c)
        \/ CheckConnection(c)
        \/ BeginTransactionDone(c)
        \/ CallbackTransaction(c)
        \/ NestedBeginTransactionDone(c)
        \/ NestedCallbackReturns(c)
        \/ NestedCallbackThrows(c)
        \/ NestedCommitTransactionDone(c)
        \/ NestedRollbackTransactionDone(c)
        \/ CallbackReturns(c)
        \/ CallbackThrows(c)
        \/ CommitTransactionDone(c)
        \/ RollbackTransactionDone(c)
        \/ Return(c)

SpecNested == InitNested /\ [][NextNested]_vars

\* The steps of a transaction() called by a transaction callback.
NestedPcs ==
    {"n_creating", "n_waiting", "n_begin", "n_body", "n_commit", "n_rollback"}

\* C11: a caller whose transaction() is active (its connection's
\* transactionActive flag is true) and that starts a transaction again is
\* refused: it never gets into a second transaction, and the refused call
\* acquires, creates and waits for no connection.
C11_NestedTransactionRejected ==
    \A c \in Callers :
        (tConn[c] # NoConn /\ conn[tConn[c]].transactionActive) =>
            /\ pc[c] \notin NestedPcs
            /\ nConn[c] = NoConn

\* ------------------------------------------------- after shutdown
\* A disconnect() has run to completion and nothing has been started since:
\* the state is 'disconnected', every connection ever created has been
\* deleted from the pool, and no call is in progress.
ShutDown ==
    /\ connectionState = "disconnected"
    /\ created > 0
    /\ connectionPool = <<>>
    /\ \A c \in Callers : pc[c] \in {"idle", "done"}

\* C12: once the pool has been shut down, a query() or transaction() call
\* fails with PoolClosed at once: it does not reconnect, and it acquires and
\* creates no connection.
C12_ClosedPoolRefuses ==
    [][\A c \in Callers :
          (ShutDown /\ pc[c] = "idle" /\ op'[c] \in {"query", "transaction"})
              => /\ pc'[c] \in {"q_done", "done"}
                 /\ result'[c] = "PoolClosed"
                 /\ connectionState' = "disconnected"
                 /\ UNCHANGED poolVars]_vars

\* ------------------------------------------------- timers fire
\* What a call that has been started does next: the timer it awaits fires, or
\* the caller it settled for resumes.  (Starting a call is the caller's
\* choice and is not among these.)
Proceeds(c) ==
    \/ SimulateConnectionDone(c)
    \/ InitializeConnectionPool(c)
    \/ CloseConnectionDone(c)
    \/ QueryAfterConnect(c)
    \/ CreateConnectionDone(c)
    \/ CheckConnection(c)
    \/ ExecuteQueryDone(c)
    \/ DelayDone(c)
    \/ QueryReturn(c)
    \/ BeginTransactionDone(c)
    \/ CallbackQuery(c)
    \/ CallbackReturns(c)
    \/ CallbackThrows(c)
    \/ CommitTransactionDone(c)
    \/ RollbackTransactionDone(c)
    \/ Return(c)

\* Every timer set fires in the end: no started call is left behind while it
\* has a step to take.
FairSpec == Spec /\ \A c \in Procs : WF_vars(Proceeds(c))

\* C13: a caller suspended in #getConnection because every pooled connection
\* is in use and the pool is full does not wait forever: its wait ends, with a
\* connection or with AcquireTimeout.
C13_AcquisitionEnds == \A c \in Procs : Blocked(c) ~> ~Blocked(c)

\* ------------------------------------------------- shutdown and holders
\* C14: disconnect() drains the pool: no connection is deleted from the pool
\* while an acquisition still holds it, so every borrowed connection is a
\* pooled one.
C14_HeldStaysPooled ==
    \A b \in Borrowers :
        \E k \in 1..Len(connectionPool) : connectionPool[k] = Borrowed(b)

\* ------------------------------------------------- releasing a handle
\* The clock advances.
Tick ==
    /\ now < MaxTime
    /\ now' = now + 1
    /\ UNCHANGED <<connectionState, poolVars, configVars, stats, pc, op,
                   queryVars, txVars, connectVars, result, calls, handle,
                   releases, snapshot, singletonVars, queryArg, serviceVars, userVars,
                   eventVars, notifyVars>>

\* #releaseConnection(handle) is called with the connection a caller kept.
ReleaseHandle ==
    /\ releases < MaxReleases
    /\ releases' = releases + 1
    /\ conn' = ReleaseConnection(connectionPool, conn, handle)
    /\ lastUsedAt' = ReleaseLastUsed(connectionPool, lastUsedAt, handle, now)
    /\ UNCHANGED <<connectionState, connectionPool, created, configVars, stats,
                   pc, op, queryVars, txVars, connectVars, result, calls, handle,
                   now, snapshot, singletonVars, queryArg, serviceVars, userVars,
                   eventVars, notifyVars>>

\* A manager whose connect() has resolved, where a caller keeps the handle of
\* a connection it acquired (or null): the pool still holds the connection,
\* or a disconnect() has deleted it, or the manager has connected again since.
InitRelease ==
    /\ maxConnections \in 1..MaxCapacity
    /\ retryAttempts = 2
    /\ LET n == InitialConnections(maxConnections)
       IN  /\ handle \in {NoConn} \cup (1..n)
           /\ \/ /\ connectionState = "connected"
                 /\ created = n
                 /\ connectionPool = [k \in 1..n |-> k]
              \/ /\ handle # NoConn
                 /\ connectionState = "disconnected"
                 /\ created = n
                 /\ connectionPool = <<>>
              \/ /\ handle # NoConn
                 /\ connectionState = "connected"
                 /\ created = n + n
                 /\ connectionPool = [k \in 1..n |-> n + k]
    /\ conn = [i \in Ids |-> [NewConnection EXCEPT !.inUse = (i = handle)]]
    /\ stats = [totalQueries |-> 0, successfulQueries |-> 0, failedQueries |-> 0,
                activeConnections |-> Len(connectionPool), connectionErrors |-> 0]
    /\ CallersIdle
    /\ releases = 0
    /\ now = 0
    /\ lastUsedAt = [i \in Ids |-> 0]
    /\ snapshot = NoSnapshot
    /\ queryArg = NoArg
    /\ retryDelay = DefaultRetryDelay
    /\ ServicesFresh
    /\ NoListeners
    /\ NotificationsWith(DefaultRateLimit)
    /\ ModulesLoaded

\* The handle is released, up to twice, while time passes and the other
\* callers run query().
NextRelease ==
    \/ Tick
    \/ ReleaseHandle
    \/ \E c \in Procs :
          \/ Query(c)
          \/ SimulateConnectionDone(c)
          \/ InitializeConnectionPool(c)
          \/ QueryAfterConnect(c)
          \/ CreateConnectionDone(c)
          \/ CheckConnection(c)
          \/ ExecuteQueryDone(c)
          \/ DelayDone(c)
          \/ QueryReturn(c)

SpecRelease == InitRelease /\ [][NextRelease]_vars

\* The number of pooled connections that are idle.
IdleCount ==
    Cardinality({k \in 1..Len(connectionPool) : ~conn[connectionPool[k]].inUse})

Pooled(id) == \E k \in 1..Len(connectionPool) : connectionPool[k] = id

\* C16: releasing a handle the pool does not track (null, or a connection
\* whose id disconnect() has deleted) changes nothing: the pool, every
\* connection's inUse and lastUsed, and the statistics stay as they are.
C16_UntrackedReleaseNoOp ==
    [][(releases' = releases + 1 /\ (handle = NoConn \/ ~Pooled(handle))) =>
          UNCHANGED <<connectionState, connectionPool, conn, lastUsedAt,
                      created, stats>>]_vars

\* C16 happens: a connection that disconnect() deleted from the pool while it
\* was held has been released, at a time later than its lastUsed.
C16_Witness ==
    /\ releases >= 1
    /\ handle # NoConn
    /\ ~Pooled(handle)
    /\ conn[handle].inUse
    /\ now > lastUsedAt[handle]

\* ------------------------------------------------- getStats()
\* A caller calls getStats() and keeps the object returned.
GetStatsCall ==
    /\ snapshot' = GetStats(stats, connectionState, connectionPool,
                            maxConnections)
    /\ UNCHANGED <<connectionState, poolVars, configVars, stats, pc, op,
                   queryVars, txVars, connectVars, result, calls, releaseVars,
                   singletonVars, queryArg, serviceVars, userVars,
                   eventVars, notifyVars>>

\* The counters a caller overwrites in the object it was given.
MutableFields == {"totalQueries", "activeConnections"}

\* The caller increments a counter of the object getStats() gave it: a write
\* to an object of its own stays there, a write to the manager's #stats object
\* is a write to #stats.
MutateSnapshot ==
    /\ snapshot.taken
    /\ ~snapshot.mutated
    /\ \E f \in MutableFields :
          /\ snapshot' = [snapshot EXCEPT !.obj[f] = @ + 1, !.mutated = TRUE]
          /\ stats' = IF snapshot.own THEN stats ELSE [stats EXCEPT ![f] = @ + 1]
    /\ UNCHANGED <<connectionState, poolVars, configVars, pc, op, queryVars,
                   txVars, connectVars, result, calls, releaseVars,
                   singletonVars, queryArg, serviceVars, userVars,
                   eventVars, notifyVars>>

\* A fresh manager on which connect(), disconnect() and getStats() are called,
\* and neither query() nor transaction().
NextConnect ==
    \/ GetStatsCall
    \/ MutateSnapshot
    \/ \E c \in Procs :
          \/ Connect(c)
          \/ SimulateConnectionDone(c)
          \/ InitializeConnectionPool(c)
          \/ Disconnect(c)
          \/ CloseConnectionDone(c)
          \/ Return(c)

SpecConnect == Init /\ [][NextConnect]_vars

\* C17: getStats() returns a snapshot: whatever a caller does to the object
\* returned, the manager's counters, connection state, pool and capacity stay
\* as they are, so that a later getStats() reports them unaffected.
C17_SnapshotDetached ==
    [][snapshot' # snapshot =>
          UNCHANGED <<stats, connectionState, connectionPool, conn,
                      maxConnections>>]_vars

\* C17 happens: a caller has overwritten a counter of the object it was given
\* after a connect() filled the pool, and the object now differs from #stats.
C17_Witness ==
    /\ snapshot.taken
    /\ snapshot.mutated
    /\ snapshot.obj.poolSize > 0
    /\ snapshot.obj.activeConnections # stats.activeConnections

\* C18: when a connect() call resolves without throwing, before any query()
\* or transaction(), getStats() reports totalQueries, successfulQueries and
\* failedQueries 0 and a pool of exactly min(3, maxConnections) connections,
\* all of them idle.
C18_FreshPoolAfterConnect ==
    [][\A c \in Callers :
          (pc[c] # "done" /\ pc'[c] = "done" /\ op'[c] = "connect"
             /\ result'[c] = "ok") =>
              LET s == GetStats(stats', connectionState', connectionPool',
                                maxConnections').obj
              IN  /\ s.totalQueries = 0
                  /\ s.successfulQueries = 0
                  /\ s.failedQueries = 0
                  /\ s.poolSize = Min(3, maxConnections)
                  /\ \A k \in 1..Len(connectionPool') :
                        ~conn'[connectionPool'[k]].inUse]_vars

\* ------------------------------------------------- the singleton classes
\* ConstructorThrows without the test of #instance.
NeverThrows(inst) == FALSE

\* constructor(): if (X.#instance) throw new Error('X is a singleton. ...')
ConstructorThrows(inst) == inst # Null

\* static getInstance(): if (!X.#instance) X.#instance = new X(); the class's
\* #instance and number of objects after the call.  A new object is numbered
\* by the count of objects constructed.
GetInstance(inst, objs) ==
    IF inst = Null
    THEN IF ConstructorThrows(inst)
         THEN [instance |-> inst, objects |-> objs]
         ELSE [instance |-> objs + 1, objects |-> objs + 1]
    ELSE [instance |-> inst, objects |-> objs]

databaseVars == <<connectionState, poolVars, configVars, stats, pc, op,
                  queryVars, txVars, connectVars, result, calls, releaseVars,
                  snapshot, queryArg, eventVars>>
managerVars == <<databaseVars, serviceVars, userVars, notifyVars>>

\* X.getInstance() is called.
GetInstanceCall(k) ==
    /\ LET r == GetInstance(instance[k], objects[k])
       IN  /\ instance' = [instance EXCEPT ![k] = r.instance]
           /\ objects' = [objects EXCEPT ![k] = r.objects]
           /\ got' = [got EXCEPT ![k] = r.instance]
    /\ UNCHANGED <<thrown, managerVars>>

\* new X() is evaluated outside the class: the constructor throws, or
\* constructs an object (which it does not store in #instance).
NewCall(k) ==
    /\ thrown[k].news < MaxNews
    /\ IF ConstructorThrows(instance[k])
       THEN /\ thrown' = [thrown EXCEPT ![k].news = @ + 1, ![k].threw = @ + 1]
            /\ UNCHANGED objects
       ELSE /\ thrown' = [thrown EXCEPT ![k].news = @ + 1]
            /\ objects' = [objects EXCEPT ![k] = @ + 1]
    /\ UNCHANGED <<instance, got, managerVars>>

\* ConfigurationManager's reset(): ConfigurationManager.#instance = null;
\* return ConfigurationManager.getInstance()
Reset ==
    /\ objects["ConfigurationManager"] < MaxObjects
    /\ LET k == "ConfigurationManager"
           r == GetInstance(Null, objects[k])
       IN  /\ instance' = [instance EXCEPT ![k] = r.instance]
           /\ objects' = [objects EXCEPT ![k] = r.objects]
           /\ got' = [got EXCEPT ![k] = r.instance]
    /\ UNCHANGED <<thrown, managerVars>>

NextSingleton ==
    \/ Reset
    \/ \E k \in Classes : GetInstanceCall(k) \/ NewCall(k)

SpecSingleton == Init /\ [][NextSingleton]_vars

\* C19: each singleton class has one instance for the life of the process:
\* whatever was called before, ConfigurationManager's reset() included, every
\* getInstance() returns the object its module exported.
C19_OneInstanceForever ==
    \A k \in Classes : instance[k] = Exported /\ got[k] = Exported

\* C20: once a class's instance exists, new on the class throws and
\* constructs no second object, and #instance stays what it was.
C20_NewAlwaysThrows ==
    [][\A k \in Classes :
          (instance[k] # Null /\ thrown'[k].news = thrown[k].news + 1) =>
              /\ thrown'[k].threw = thrown[k].threw + 1
              /\ objects'[k] = objects[k]
              /\ instance'[k] = instance[k]]_vars

\* C20 happens: new has been tried, and has thrown, on each of the three
\* classes, on ConfigurationManager after a reset().
C20_Witness ==
    /\ \A k \in Classes : thrown[k].threw >= 1
    /\ instance["ConfigurationManager"] # Exported

\* ------------------------------------------------- connect() and disconnect() resolve
\* C21: whenever a connect() call resolves without throwing, the connection
\* state is 'connected' at that moment, whatever connect(), query() and
\* disconnect() calls are interleaved with it.
C21_ConnectedWhenConnectResolves ==
    [][\A c \in Callers :
          (pc[c] # "done" /\ pc'[c] = "done" /\ op'[c] = "connect"
             /\ result'[c] = "ok") =>
              connectionState' = "connected"]_vars

\* C22: whenever a disconnect() call resolves, the connection state is
\* 'disconnected', the pool is empty and activeConnections is 0, whatever
\* connect(), query() and transaction() calls were started before.
C22_EmptyWhenDisconnectResolves ==
    [][\A c \in Callers :
          (pc[c] # "done" /\ pc'[c] = "done" /\ op'[c] = "disconnect") =>
              /\ connectionState' = "disconnected"
              /\ connectionPool' = <<>>
              /\ stats'.activeConnections = 0]_vars

\* ------------------------------------------------- query(query) with any argument
\* The arguments query() is called with, by typeof and truthiness: 'SELECT 1',
\* '', 42 and undefined.
QueryInputs ==
    {[type |-> "string", truthy |-> TRUE], [type |-> "string", truthy |-> FALSE],
     [type |-> "number", truthy |-> TRUE], NoArg}

\* Rejects without the typeof test: !query
RejectsFalsy(q) == ~q.truthy

\* !query || typeof query !== 'string'
Rejects(q) == ~q.truthy \/ q.type # "string"

\* query(q): throws 'Query must be a non-empty string', or goes on as above.
QueryWith(c) ==
    /\ pc[c] = "idle"
    /\ calls < MaxCalls
    /\ calls' = calls + 1
    /\ op' = [op EXCEPT ![c] = "query"]
    /\ \E q \in QueryInputs :
          /\ queryArg' = q
          /\ IF Rejects(q)
             THEN /\ result' = [result EXCEPT ![c] = "InvalidQuery"]
                  /\ pc' = [pc EXCEPT ![c] = "q_done"]
                  /\ UNCHANGED <<connectionState, poolVars, stats, queryVars,
                                 txVars, connectVars, eventVars>>
             ELSE /\ QueryStart(c)
                  /\ UNCHANGED bodyQueries
    /\ UNCHANGED <<configVars, releaseVars, snapshot, singletonVars,
                   serviceVars, userVars, notifyVars>>

\* A fresh manager on which the callers call query() with any argument.
NextQuery ==
    \E c \in Procs :
        \/ QueryWith(c)
        \/ SimulateConnectionDone(c)
        \/ InitializeConnectionPool(c)
        \/ QueryAfterConnect(c)
        \/ CreateConnectionDone(c)
        \/ CheckConnection(c)
        \/ ExecuteQueryDone(c)
        \/ DelayDone(c)
        \/ QueryReturn(c)

SpecQuery == Init /\ [][NextQuery]_vars

\* C23: a query() call with an empty or non-string query throws and leaves
\* the manager as it was: no counter of the statistics and not the connection
\* state changes, no connect is started, no connection acquired or created.
C23_InvalidQueryChangesNothing ==
    [][\A c \in Callers :
          (pc[c] = "idle" /\ op'[c] = "query"
             /\ (queryArg'.type # "string" \/ ~queryArg'.truthy)) =>
              /\ pc'[c] = "q_done"
              /\ result'[c] = "InvalidQuery"
              /\ UNCHANGED <<stats, connectionState, connectionPool, conn,
                             created, qConn>>]_vars

\* C23 happens: a query() call with a number for a query has thrown on a
\* manager that other queries have connected and used.
C23_Witness ==
    \E c \in Callers :
        /\ pc[c] = "q_done"
        /\ result[c] = "InvalidQuery"
        /\ queryArg = [type |-> "number", truthy |-> TRUE]
        /\ connectionState = "connected"
        /\ stats.totalQueries > 0

\* ------------------------------------------------- flags and gauges
\* The transaction() calls in progress that hold the connection.
TransactionsOn(id) ==
    {b \in Borrowers : b[2] \in {"t", "n"} /\ Borrowed(b) = id}

\* C29: a connection whose transactionActive flag is true is marked inUse and
\* is held by exactly one transaction() call in progress; a connection that
\* is not in use has transactionActive false.
C29_ActiveFlagHasOneHolder ==
    \A id \in 1..created :
        /\ conn[id].transactionActive =>
              /\ conn[id].inUse
              /\ Cardinality(TransactionsOn(id)) = 1
        /\ ~conn[id].inUse => ~conn[id].transactionActive

\* C29 happens: a transaction is active on a connection while another
\* connection, used by a transaction that has ended, is idle in the pool.
C29_Witness ==
    \E i \in 1..created : \E j \in 1..created :
        /\ conn[i].transactionActive
        /\ Pooled(j)
        /\ ~conn[j].inUse
        /\ \E c \in Callers : op[c] = "transaction" /\ pc[c] = "done"

\* C30: stats.activeConnections equals the number of connections currently
\* acquired by callers.
C30_GaugeCountsAcquired == stats.activeConnections = Cardinality(Borrowers)

\* C28: the retry backoff of one query() is linear and stays on one
\* connection: the k-th delay it awaits lasts retryDelay * k, it awaits one
\* delay after every failed attempt but the last and none after the last, all
\* its attempts run on the connection it acquired, and that connection is in
\* use while a delay is awaited.
C28_LinearBackoffOneConnection ==
    \A c \in Callers :
        /\ \A k \in 1..Len(waits[c]) : waits[c][k] = retryDelay * k
        /\ pc[c] = "q_delay" =>
               /\ Len(waits[c]) = made[c]
               /\ made[c] < retryAttempts
               /\ qConn[c] # NoConn
               /\ conn[qConn[c]].inUse
        /\ pc[c] = "q_exec" =>
               /\ Len(waits[c]) = made[c]
               /\ ranOn[c] \subseteq {qConn[c]}
        /\ (pc[c] = "q_done" /\ made[c] > 0) =>
               /\ Len(waits[c]) = made[c] - 1
               /\ Cardinality(ranOn[c]) = 1
        /\ NoConn \notin ranOn[c]

\* A query() has failed on every one of three attempts, after two delays.
C28_Witness ==
    \E c \in Callers :
        /\ pc[c] = "q_done"
        /\ result[c] = "QueryExecutionFailed"
        /\ made[c] = 3
        /\ waits[c] = <<retryDelay, 2 * retryDelay>>
        /\ Cardinality(ranOn[c]) = 1

\* ------------------------------------------- ConfigurationManager
\* The values the callers store, and the defaults they pass to get().
MaxPort == 65535
ConfigValues == {Number(8080), Number(MaxPort + 1), NullValue, Undefined}
Defaults == {Undefined, StringValue}

Prefix(p, n) == SubSeq(p, 1, n)

\* q is p or lies above p.
IsPrefix(q, p) == Len(q) <= Len(p) /\ Prefix(p, Len(q)) = q

\* Every object inherits the properties of Object.prototype.
Inherited(k) == k = "constructor"

\* k in value, for the object stored at the parent of path p
Has(cfg, p) == cfg[p] # Absent \/ Inherited(p[Len(p)])

\* value[k], for the object stored at the parent of path p
ValueAt(cfg, p) ==
    IF cfg[p] # Absent THEN cfg[p]
    ELSE IF Inherited(p[Len(p)]) THEN FunctionValue ELSE Undefined

\* The value at path p is replaced by v: what was stored below p is gone.
Assign(cfg, p, v) ==
    [q \in Keys |-> IF q = p THEN v
                    ELSE IF IsPrefix(p, q) THEN Absent ELSE cfg[q]]

\* get()'s loop from the i-th segment on, value being what it has reached.
RECURSIVE GetFrom(_, _, _, _, _)
GetFrom(cfg, key, i, value, d) ==
    IF i > Len(key) THEN value
    ELSE IF Truthy(value) /\ TypeOf(value) = "object" /\ Has(cfg, Prefix(key, i))
         THEN GetFrom(cfg, key, i + 1, ValueAt(cfg, Prefix(key, i)), d)
         ELSE d

\* get(key, defaultValue)
Get(cfg, key, d) == GetFrom(cfg, key, 1, ObjectValue, d)

\* Number.isInteger(value) && value > 0 && value <= 65535
PortRule(v) == v.type = "number" /\ v.num > 0 /\ v.num <= MaxPort

\* #validateValue: the rule of keys[0], keys[1] when there is one.
ValidateValue(key, v) ==
    IF Len(key) >= 2 /\ key[1] = "server" /\ key[2] = "port"
    THEN PortRule(v)
    ELSE TRUE

\* set()'s loop over the parents from the i-th segment on: a parent that is
\* missing or not of type object is replaced by {}; null, of type object, is
\* kept, and looking a segment up in it throws.
RECURSIVE Navigate(_, _, _)
Navigate(cfg, key, i) ==
    IF i >= Len(key) THEN [cfg |-> cfg, threw |-> FALSE]
    ELSE LET current == IF i = 1 THEN ObjectValue ELSE ValueAt(cfg, Prefix(key, i - 1))
             p == Prefix(key, i)
         IN  IF current = NullValue THEN [cfg |-> cfg, threw |-> TRUE]
             ELSE Navigate(IF ~Has(cfg, p) \/ TypeOf(ValueAt(cfg, p)) # "object"
                           THEN Assign(cfg, p, ObjectValue)
                           ELSE cfg,
                           key, i + 1)

\* set() returning true without regard to the validation.
StoredAlways(valid) == True

\* return true after current[lastKey] = value; return false otherwise
Stored(valid) == IF valid THEN True ELSE False

\* set(key, value): the configuration afterwards, and what the call returned.
Set(cfg, key, v) ==
    LET nav == Navigate(cfg, key, 1)
        current == IF Len(key) = 1 THEN ObjectValue
                   ELSE ValueAt(nav.cfg, Prefix(key, Len(key) - 1))
        valid == ValidateValue(key, v)
    IN  IF nav.threw \/ (valid /\ current = NullValue)
        THEN [cfg |-> nav.cfg, ret |-> TypeError]
        ELSE [cfg |-> IF valid THEN Assign(nav.cfg, key, v) ELSE nav.cfg,
              ret |-> Stored(valid)]

\* configManager.set(key, value) is called.
SetCall ==
    /\ \E key \in Keys, v \in ConfigValues :
          LET r == Set(config, key, v)
          IN  /\ config' = r.cfg
              /\ cfgCall' = [op |-> "set", key |-> key, value |-> v, ret |-> r.ret]
    /\ UNCHANGED <<logLevel, logCall, userVars, singletonVars, databaseVars,
                   notifyVars>>

\* configManager.get(key, defaultValue) is called.
GetCall ==
    /\ \E key \in Keys, d \in Defaults :
          cfgCall' = [op |-> "get", key |-> key, value |-> d,
                      ret |-> Get(config, key, d)]
    /\ UNCHANGED <<config, logLevel, logCall, userVars, singletonVars,
                   databaseVars, notifyVars>>

\* ------------------------------------------------------------ Logger
\* The level options the callers pass to configure().
LevelOptions == {"ERROR", "WARN", "INFO", "DEBUG", "TRACE", "VERBOSE",
                 "toString", NoLevel}

\* const { level = 'INFO', ... } = options
LevelOf(option) == IF option = NoLevel THEN "INFO" ELSE option

\* if (Logger.#LOG_LEVELS[level] !== undefined) this.#logLevel = ...
ConfigureLevel(l, option) ==
    IF LogLevels(LevelOf(option)) # Undefined
    THEN LogLevels(LevelOf(option))
    ELSE l

\* getLevel(): the first name of #LOG_LEVELS whose number is #logLevel.
GetLevel(l) ==
    IF \E i \in 1..Len(LevelNames) : LogLevels(LevelNames[i]) = l
    THEN LevelNames[CHOOSE i \in 1..Len(LevelNames) :
                        /\ LogLevels(LevelNames[i]) = l
                        /\ \A j \in 1..(i - 1) : LogLevels(LevelNames[j]) # l]
    ELSE "undefined"

\* logger.configure({ level: option }) is called.
Configure ==
    /\ \E option \in LevelOptions :
          /\ logLevel' = ConfigureLevel(logLevel, option)
          /\ logCall' = option
    /\ UNCHANGED <<config, cfgCall, userVars, singletonVars, databaseVars,
                   notifyVars>>

\* The callers use the configuration manager and the logger.
NextServices == SetCall \/ GetCall \/ Configure

\* The services beside a manager of the default capacity and retries.
InitServices ==
    /\ Init
    /\ maxConnections = MaxCapacity
    /\ retryAttempts = MaxRetryAttempts

SpecServices == InitServices /\ [][NextServices]_vars

\* set(k, v) has returned and get(k) returns v; no other key that is neither
\* above nor below k returns another value than before.
RoundTrip(cfg, call, cfgAfter) ==
    /\ Get(cfgAfter, call.key, Undefined) = call.value
    /\ \A j \in Keys, d \in Defaults :
          (~IsPrefix(j, call.key) /\ ~IsPrefix(call.key, j)) =>
              Get(cfgAfter, j, d) = Get(cfg, j, d)

\* C24: after every set(k, v) that returns, get(k) returns v and the values
\* under the keys that are neither a prefix nor an extension of k are
\* returned as before.
C24_SetThenGet ==
    [][(cfgCall'.op = "set" /\ cfgCall'.ret # TypeError) =>
          RoundTrip(config, cfgCall', config')]_vars

\* C24 (amended): after every set(k, v) that returns true, get(k) returns v
\* and the values under the keys that are neither a prefix nor an extension
\* of k are returned as before; set returns false, and get(k) returns what
\* it returned before, when v fails the validation rule of k.
C24_AcceptedSetThenGet ==
    [][cfgCall'.op = "set" =>
          /\ cfgCall'.ret = True => RoundTrip(config, cfgCall', config')
          /\ cfgCall'.ret = False =>
                /\ ~ValidateValue(cfgCall'.key, cfgCall'.value)
                /\ \A d \in Defaults :
                      Get(config', cfgCall'.key, d) = Get(config, cfgCall'.key, d)
                /\ \A j \in Keys, d \in Defaults :
                      (~IsPrefix(j, cfgCall'.key) /\ ~IsPrefix(cfgCall'.key, j)) =>
                          Get(config', j, d) = Get(config, j, d)]_vars

\* set('server.port', 8080) has returned true beside the stored host.
C24_Witness ==
    /\ cfgCall.op = "set"
    /\ cfgCall.key = <<"server", "port">>
    /\ cfgCall.value = Number(8080)
    /\ cfgCall.ret = True
    /\ Get(config, <<"server", "port">>, Undefined) = Number(8080)
    /\ Get(config, <<"server", "host">>, Undefined) = StringValue

\* Every segment of the path is stored, below an object.
StoredAt(cfg, key) ==
    \A i \in 1..Len(key) :
        /\ cfg[Prefix(key, i)] # Absent
        /\ i < Len(key) => cfg[Prefix(key, i)] = ObjectValue

\* C25: get(k, d) returns d exactly when a segment of k is absent from the
\* configuration or lies below a value that is not an object, returns the
\* stored value otherwise, and leaves the configuration as it is.
C25_DefaultIffAbsent ==
    [][cfgCall'.op = "get" =>
          /\ cfgCall'.ret = IF StoredAt(config, cfgCall'.key)
                            THEN config[cfgCall'.key]
                            ELSE cfgCall'.value
          /\ config' = config]_vars

\* C26: after configure({level: L}) with L one of the five level names,
\* getLevel() returns L; a configure call with any other level leaves the
\* level as it was.
C26_LevelSetOrKept ==
    [][logCall' # logCall =>
          IF \E i \in 1..Len(LevelNames) : LevelNames[i] = logCall'
          THEN GetLevel(logLevel') = logCall'
          ELSE logLevel' = logLevel]_vars

\* ------------------------------------------------------- UserService
\* The user data the callers pass to createUser().
WellFormedEmails == {"test@example.com"}
Roles == {"admin", "customer", "premium"}
UserInputs ==
    {[name |-> "Test User", email |-> "test@example.com", role |-> "customer"],
     [name |-> "", email |-> "test@example.com", role |-> "customer"],
     [name |-> "Test User", email |-> "test", role |-> "customer"],
     [name |-> "Test User", email |-> "test@example.com", role |-> "guest"]}

\* #validateUserData: the error it throws, or "ok".
ValidateUserData(u) ==
    IF u.name = "" THEN "NameRequired"
    ELSE IF u.email = "" \/ u.email \notin WellFormedEmails THEN "ValidEmailRequired"
    ELSE IF u.role = "" \/ u.role \notin Roles THEN "RoleInvalid"
    ELSE "ok"

\* The rows of the result every successful #executeQuery resolves with.
ExampleRows == 2
RowCount(res) == IF res = "ok" THEN ExampleRows ELSE 0

\* this.config.enableAuditLog: configManager.get('app.enableAuditLog', true)
EnableAuditLog == TRUE

\* How createUser() goes on after the query of its stage has settled with
\* res: the next query it awaits, the error it throws, or "created" when it
\* returns the user, result.rows[0].
AfterUserQuery(stage, res) ==
    CASE stage = "lookup" ->
            IF res # "ok" THEN res
            ELSE IF RowCount(res) > 0 THEN "UserExists" ELSE "insert"
      [] stage = "insert" ->
            IF res # "ok" THEN res
            ELSE IF EnableAuditLog THEN "audit" ELSE "created"
      [] OTHER -> "created"

\* userService.createUser(userData), up to its first await: the data is
\* validated, then getUserByEmail() awaits its query.
CreateUser(c) ==
    /\ pc[c] = "idle"
    /\ calls < MaxCalls
    /\ calls' = calls + 1
    /\ op' = [op EXCEPT ![c] = "createUser"]
    /\ \E u \in UserInputs :
          /\ userData' = [userData EXCEPT ![c] = u]
          /\ IF ValidateUserData(u) # "ok"
             THEN /\ result' = [result EXCEPT ![c] = ValidateUserData(u)]
                  /\ pc' = [pc EXCEPT ![c] = "done"]
                  /\ UNCHANGED <<connectionState, poolVars, stats, queryVars,
                                 txVars, connectVars, userStage, eventVars>>
             ELSE /\ userStage' = [userStage EXCEPT ![c] = "lookup"]
                  /\ QueryStart(c)
                  /\ UNCHANGED bodyQueries
    /\ UNCHANGED <<configVars, releaseVars, snapshot, singletonVars, queryArg,
                   serviceVars, notifyVars>>

\* The query createUser() awaits has settled: createUser() awaits its next
\* query, or settles itself.
UserQueryReturn(c) ==
    /\ pc[c] = "q_done"
    /\ op[c] = "createUser"
    /\ LET next == AfterUserQuery(userStage[c], result[c])
       IN  IF next \in {"insert", "audit"}
           THEN /\ userStage' = [userStage EXCEPT ![c] = next]
                /\ QueryStart(c)
                /\ UNCHANGED userData
           ELSE /\ userStage' = [userStage EXCEPT ![c] = "none"]
                /\ userData' = [userData EXCEPT ![c] = NoUserData]
                /\ result' = [result EXCEPT ![c] = next]
                /\ pc' = [pc EXCEPT ![c] = "done"]
                /\ attempt' = [attempt EXCEPT ![c] = 0]
                /\ made' = [made EXCEPT ![c] = 0]
                /\ waits' = [waits EXCEPT ![c] = <<>>]
                /\ ranOn' = [ranOn EXCEPT ![c] = {}]
                /\ lastError' = [lastError EXCEPT ![c] = "undefined"]
                /\ hits' = [hits EXCEPT ![c] = NoHits]
                /\ UNCHANGED <<connectionState, poolVars, stats, qConn, txVars,
                               connectVars, eventVars>>
    /\ UNCHANGED <<configVars, releaseVars, snapshot, singletonVars, queryArg,
                   serviceVars, notifyVars, op, calls, bodyQueries>>

\* The callers connect the manager and create users.
NextUser ==
    \E c \in Procs :
        \/ Connect(c)
        \/ SimulateConnectionDone(c)
        \/ InitializeConnectionPool(c)
        \/ CreateUser(c)
        \/ QueryAfterConnect(c)
        \/ CreateConnectionDone(c)
        \/ CheckConnection(c)
        \/ ExecuteQueryDone(c)
        \/ DelayDone(c)
        \/ UserQueryReturn(c)
        \/ Return(c)

SpecUser == Init /\ [][NextUser]_vars

\* C27: with the database connected and valid user data, a createUser()
\* call whose query has succeeded resolves to the created user.
C27_ValidUserCreated ==
    [][\A c \in Callers :
          (/\ op[c] = "createUser"
           /\ pc[c] = "q_done"
           /\ result[c] = "ok"
           /\ ValidateUserData(userData[c]) = "ok"
           /\ connectionState = "connected"
           /\ pc'[c] = "done") =>
              result'[c] = "created"]_vars

\* C31: whenever a query() call has acquired a connection and runs its unit
\* of work on it, the connection state is 'connected', whatever connect()
\* and disconnect() calls run beside it.
C31_ConnectedWhenQueryRuns ==
    [][\A c \in Callers :
          (op[c] = "query" /\ pc[c] = "q_exec" /\ made'[c] = made[c] + 1) =>
              connectionState = "connected"]_vars

\* A connection attempt is in progress: a connect() call awaits
\* #simulateConnection or #initializeConnectionPool.
Attempting(c) == pc[c] \in {"connecting", "init_pool"}

\* C32: when the simulated connection attempt of a connect() fails, the call,
\* having emitted 'connecting' at its start, sets the state to 'error',
\* counts one connection error, emits 'error', rethrows the failure and
\* leaves the pool as it is; a connect() or query() called in the state
\* 'error' starts a fresh attempt; and the state is 'connecting' only while
\* an attempt is in progress.
C32_FailedConnectRecovers ==
    [][\A c \in Callers :
          /\ (pc[c] = "connecting" /\ pc'[c] \notin {"connecting", "init_pool"}) =>
                /\ connectionState' = "error"
                /\ stats'.connectionErrors = stats.connectionErrors + 1
                /\ lastEmit'.event = "error"
                /\ result'[c] = "ConnectionTimeout"
                /\ pc'[c] \in {"done", "q_done"}
                /\ UNCHANGED <<connectionPool, conn, created>>
          /\ (pc[c] = "idle" /\ op'[c] \in {"connect", "query"}
                /\ connectionState = "error") =>
                /\ connectionState' = "connecting"
                /\ lastEmit'.event = "connecting"
                /\ pc'[c] = "connecting"
          /\ (pc[c] # "connecting" /\ pc'[c] = "connecting") =>
                lastEmit'.event = "connecting"
          /\ connectionState' = "connecting" => \E d \in Callers : Attempting(d)']_vars

\* After a failed attempt a later call has started a fresh one.
C32_Witness ==
    /\ stats.connectionErrors > 0
    /\ connectionState = "connecting"
    /\ lastEmit.event = "connecting"
    /\ \E c \in Callers : pc[c] = "connecting" /\ op[c] = "query"
    /\ \E c \in Callers : pc[c] = "done" /\ result[c] = "ConnectionTimeout"

\* A query() call of the caller has not settled yet.
QueryInProgress(c) ==
    \/ pc[c] \in {"q_connected", "q_creating", "q_waiting", "q_exec", "q_delay"}
    \/ pc[c] \in {"connecting", "init_pool"} /\ op[c] # "connect"

\* C33: the statistics are consistent: when no query() call is in progress,
\* totalQueries = successfulQueries + failedQueries; and a query() call
\* that has settled has increased totalQueries by one and exactly one of
\* successfulQueries and failedQueries by one.
C33_StatisticsConsistent ==
    /\ (\A c \in Callers : ~QueryInProgress(c)) =>
           stats.totalQueries = stats.successfulQueries + stats.failedQueries
    /\ \A c \in Callers :
           pc[c] = "q_done" =>
               /\ hits[c].total = 1
               /\ hits[c].ok + hits[c].failed = 1

\* C34: every query a transaction callback issues runs on the connection on
\* which its transaction was begun, a connection whose transactionActive
\* flag is set, and on no other.
C34_CallbackQueryOnTransactionConnection ==
    \A c \in Callers :
        (op[c] = "transaction" /\ pc[c] \in {"q_exec", "q_delay"}) =>
            /\ qConn[c] = tConn[c]
            /\ conn[qConn[c]].transactionActive

\* ------------------------------------------------- listeners
MaxListeners == 2

\* The events the callers listen to.
ListenedEvents == {"connecting", "disconnected"}

Registered(ls, l) == \E i \in 1..Len(ls) : ls[i] = l

\* on(event, listener) is called with a listener not yet registered.
On ==
    /\ \E e \in ListenedEvents, l \in Listeners :
          /\ Len(eventListeners[e]) < MaxListeners
          /\ ~Registered(eventListeners[e], l)
          /\ eventListeners' = [eventListeners EXCEPT ![e] = Append(@, l)]
    /\ UNCHANGED <<lastEmit, connectionState, poolVars, stats, pc, op,
                   queryVars, txVars, connectVars, result, calls, quietVars>>

\* off(event, listener) is called with a registered listener.
Off ==
    /\ \E e \in ListenedEvents, l \in Listeners :
          /\ Registered(eventListeners[e], l)
          /\ eventListeners' = [eventListeners EXCEPT ![e] = Splice(@, l)]
    /\ UNCHANGED <<lastEmit, connectionState, poolVars, stats, pc, op,
                   queryVars, txVars, connectVars, result, calls, quietVars>>

\* The callers register listeners, connect and disconnect.
NextEvents ==
    \/ On
    \/ Off
    \/ \E c \in Procs :
          \/ Connect(c)
          \/ SimulateConnectionDone(c)
          \/ InitializeConnectionPool(c)
          \/ Disconnect(c)
          \/ CloseConnectionDone(c)
          \/ Return(c)

SpecEvents == InitServices /\ [][NextEvents]_vars

\* C35: an emit invokes every listener registered for the event when it
\* begins exactly once and in registration order, whether a listener throws
\* or calls off() meanwhile; and the connect() or disconnect() that emits
\* goes on as without listeners.
C35_EveryListenerInvokedOnce ==
    lastEmit.invoked = lastEmit.registered

\* ------------------------------------------------- rate limit
MaxRateLimit == 2
MaxTicks == 8

\* sendEmail, sendSMS, sendPushNotification
Kinds == {"email", "sms", "push"}

\* if (now > this.#rateLimitResetTime): the window has passed.
WindowPassed(t, reset) == t > reset

\* The limit test letting one more call pass.
ExceededAbove(counter, limit) == counter > limit

\* if (this.#rateLimitCounter >= this.config.rateLimit) throw ...
Exceeded(counter, limit) == counter >= limit

\* A send call up to its first await: the parameters are validated, then
\* #checkRateLimit restarts the counter when the window has passed, throws
\* when the limit is reached and counts the call otherwise; the notification
\* is then handed to its sender.
Send ==
    \E kind \in Kinds, valid \in BOOLEAN :
        /\ IF ~valid
           THEN /\ lastSend' = [kind |-> kind, result |-> "ValidationError"]
                /\ UNCHANGED <<rateLimitCounter, rateLimitResetTime, sendTimes>>
           ELSE LET restart == WindowPassed(clock, rateLimitResetTime)
                    counter == IF restart THEN 0 ELSE rateLimitCounter
                IN  /\ rateLimitResetTime' =
                          IF restart THEN clock + Window ELSE rateLimitResetTime
                    /\ IF Exceeded(counter, rateLimit)
                       THEN /\ rateLimitCounter' = counter
                            /\ lastSend' = [kind |-> kind,
                                            result |-> "RateLimitExceeded"]
                            /\ UNCHANGED sendTimes
                       ELSE /\ rateLimitCounter' = counter + 1
                            /\ lastSend' = [kind |-> kind, result |-> "passed"]
                            /\ sendTimes' = Append(sendTimes, clock)
        /\ UNCHANGED <<rateLimit, clock, singletonVars, databaseVars,
                       serviceVars, userVars>>

\* Half a window of time passes.
Advance ==
    /\ clock < MaxTicks * (Window \div 2)
    /\ clock' = clock + (Window \div 2)
    /\ UNCHANGED <<rateLimit, rateLimitCounter, rateLimitResetTime, sendTimes,
                   lastSend, singletonVars, databaseVars, serviceVars, userVars>>

NextNotify == Send \/ Advance

\* The service is built with a configured limit.
InitNotify ==
    /\ InitManager
    /\ maxConnections = MaxCapacity
    /\ retryAttempts = MaxRetryAttempts
    /\ \E limit \in 0..MaxRateLimit : NotificationsWith(limit)

SpecNotify == InitNotify /\ [][NextNotify]_vars

\* The notifications handed to a sender in the window that ends at reset.
SentInWindow(reset) ==
    {i \in 1..Len(sendTimes) : sendTimes[i] >= reset - Window}

\* C36: the counter never exceeds the limit; in one window at most rateLimit
\* calls pass the rate check; a further call in that window fails with
\* 'Rate limit exceeded' and sends nothing; and the counter restarts from 0
\* only once the reset time of the window has passed.
C36_RateLimitHolds ==
    [][/\ rateLimitCounter' <= rateLimit'
       /\ Cardinality(SentInWindow(rateLimitResetTime)') <= rateLimit'
       /\ lastSend'.result = "RateLimitExceeded" => sendTimes' = sendTimes
       /\ (clock' = clock /\ lastSend'.result # "ValidationError"
             /\ clock <= rateLimitResetTime /\ rateLimitCounter = rateLimit) =>
             /\ lastSend'.result = "RateLimitExceeded"
             /\ UNCHANGED <<rateLimitCounter, rateLimitResetTime>>
       /\ sendTimes' # sendTimes =>
             /\ sendTimes' = Append(sendTimes, clock)
             /\ lastSend'.result = "passed"
       /\ rateLimitCounter' < rateLimitCounter =>
             /\ clock > rateLimitResetTime
             /\ rateLimitResetTime' = clock + Window]_vars

\* The limit was reached in one window, calls passed again in a later one,
\* and the limit is reached again.
C36_Witness ==
    /\ rateLimit > 0
    /\ lastSend.result = "RateLimitExceeded"
    /\ rateLimitCounter = rateLimit
    /\ Len(sendTimes) = 2 * rateLimit
    /\ clock > Window


============================================================================
